---- MODULE Spec2Model ----
(***************************************************************************)
(* A model of the blockchain crate: PositiveF64, Account, Transaction,     *)
(* Block and BlockChain.                                                   *)
(*                                                                         *)
(* Amounts and balances are f64 in the source; they are modelled by        *)
(* integers (NaN, infinities and rounding are outside the model).          *)
(* SHA-512 is a library function; it is modelled by a deterministic digest *)
(* with a small range, embedded in HashLen bytes (64 in the source).       *)
(* A panic (Result::unwrap on Err) unwinds the call: the state is left as  *)
(* the code had it at that point and `panicked` records it.                *)
(* Transaction is modelled from transaction.rs, whose sender and receiver  *)
(* are Strings: push_transaction hands it the two accounts, of which the   *)
(* model keeps the name.                                                   *)
(***************************************************************************)
EXTENDS Integers, Sequences, FiniteSets, TLC

VARIABLES
    accounts,                \* the Accounts the caller holds, by name
    index,                   \* BlockChain.index
    chain,                   \* BlockChain.chain
    transactions,            \* BlockChain.transactions, the pending buffer
    transactions_per_block,  \* BlockChain.transactions_per_block
    panicked,                \* the last call unwound with a panic
    last                     \* the last call and its arguments

vars == <<accounts, index, chain, transactions, transactions_per_block, panicked, last>>

\* ------------------------------------------------------------------ bounds
HashLen == 4        \* bytes of a digest (64 in the source)
MaxNonce == 12      \* cap of the proof-of-work search
MaxBal == 1         \* |balance| stays within MaxBal
MaxTx == 2          \* transactions submitted to the ledger

Names == {"a", "b"}
Passwords == {"a", "b"}
Amounts == {0 - 1, 0, 1}
BatchSizes == {0, 1, 2}

\* --------------------------------------------------------------- strings
\* A String is a sequence of one-character strings.
Digit(d) == CASE d = 0 -> "0" [] d = 1 -> "1" [] d = 2 -> "2" [] d = 3 -> "3"
              [] d = 4 -> "4" [] d = 5 -> "5" [] d = 6 -> "6" [] d = 7 -> "7"
              [] d = 8 -> "8" [] d = 9 -> "9"

RECURSIVE Digits(_)
Digits(n) == IF n < 10 THEN <<Digit(n)>> ELSE Digits(n \div 10) \o <<Digit(n % 10)>>

\* `{}` of a usize, a u128, or an f64 holding an integer value
FmtNum(n) == IF n < 0 THEN <<"-">> \o Digits(0 - n) ELSE Digits(n)

\* `{:?}` of a [u8; N]: "[b1, b2, ..., bN]"
RECURSIVE JoinBytes(_)
JoinBytes(h) == IF Len(h) = 0 THEN <<>>
                ELSE IF Len(h) = 1 THEN Digits(h[1])
                ELSE Digits(h[1]) \o <<",", " ">> \o JoinBytes(Tail(h))

DebugBytes(h) == <<"[">> \o JoinBytes(h) \o <<"]">>

\* `{:?}` of a String: quoted, with quotes and backslashes escaped
EscapeChar(c) == IF c = "\"" \/ c = "\\" THEN <<"\\", c>> ELSE <<c>>

RECURSIVE Escape(_, _, _)
Escape(s, lo, hi) ==
    IF lo > hi THEN <<>>
    ELSE IF lo = hi THEN EscapeChar(s[lo])
    ELSE Escape(s, lo, (lo + hi) \div 2) \o Escape(s, (lo + hi) \div 2 + 1, hi)

DebugStr(s) == <<"\"">> \o Escape(s, 1, Len(s)) \o <<"\"">>

\* the character's code
Code(c) == CASE c = "0" -> 48 [] c = "1" -> 49 [] c = "2" -> 50 [] c = "3" -> 51
             [] c = "4" -> 52 [] c = "5" -> 53 [] c = "6" -> 54 [] c = "7" -> 55
             [] c = "8" -> 56 [] c = "9" -> 57 [] c = " " -> 32 [] c = "\"" -> 34
             [] c = "(" -> 40 [] c = ")" -> 41 [] c = "," -> 44 [] c = "-" -> 45
             [] c = ":" -> 58 [] c = "[" -> 91 [] c = "\\" -> 92 [] c = "]" -> 93
             [] c = "a" -> 97 [] c = "b" -> 98 [] c = "c" -> 99

\* ---------------------------------------------------------------- digest
\* the proof-of-work target of Block::calculate_hash
Target == <<69, 69>>

\* the initial value of a hash field
ZeroHash == [i \in 1 .. HashLen |-> 0]

\* the digest's value: the sum of the input's characters, each weighted by
\* its position, over the characters lo..hi
RECURSIVE Mix(_, _, _)
Mix(s, lo, hi) ==
    IF lo > hi THEN 0
    ELSE IF lo = hi THEN ((2 * lo + 1) * Code(s[lo])) % (2 ^ HashLen)
    ELSE (Mix(s, lo, (lo + hi) \div 2) + Mix(s, (lo + hi) \div 2 + 1, hi)) % (2 ^ HashLen)

\* Sha512::new(), update(bytes), finalize(): the value's bits, one per byte,
\* over the target's byte, so that a digest starts with the target when its
\* two low bits are clear
Sha512(s) == LET value == (Len(s) + Mix(s, 1, Len(s))) % (2 ^ HashLen)
             IN  [i \in 1 .. HashLen |-> Target[1] + ((value \div (2 ^ (i - 1))) % 2)]

\* ----------------------------------------------------------- PositiveF64
\* PositiveF64::new: Ok iff number >= 0.0
PositiveF64New(number) == IF number >= 0 THEN [ok |-> TRUE, value |-> number]
                          ELSE [ok |-> FALSE, value |-> number]

\* AddAssign: self.0 += other.0, unchecked
AddAssign(self, other) == self + other

\* SubAssign: PositiveF64::new(self.0 - other.0).unwrap() panics on a negative
\* difference, before the assignment
SubAssignPanics(self, other) == ~PositiveF64New(self - other).ok

SubAssign(self, other) == self - other

\* --------------------------------------------------------------- Account
\* Account::new: balance 0.0, the password stored as its digest
AccountInit(name, password) ==
    [first_name |-> name, last_name |-> name,
     balance |-> PositiveF64New(0).value,
     hash_password |-> Sha512(<<password>>)]

\* Account::add_money: the balance after the call
AddMoneyNoCheck(balance, amount) == balance + amount

SubMoneyNoCheck(balance, amount) == IF amount > 0 THEN balance - amount ELSE balance

AddMoneyBalance(balance, amount) ==
    IF amount = 0 THEN balance
    ELSE IF PositiveF64New(amount).ok THEN AddAssign(balance, amount)
    ELSE balance

\* Account::sub_money: the balance after the call
SubMoneyBalance(balance, amount) ==
    IF amount = 0 THEN balance
    ELSE IF PositiveF64New(amount).ok
         THEN (IF PositiveF64New(balance - amount).ok
               THEN SubAssign(balance, amount) ELSE balance)
    ELSE balance

\* ----------------------------------------------------------- Transaction
\* Transaction::calculate_hash: the digest of "{sender}{receiver}{amount}"
TransactionDigest(sender, receiver, amount) ==
    Sha512(<<sender, receiver>> \o FmtNum(amount))

\* Transaction::new, as BlockChain::push_transaction calls it: with the two
\* accounts, the amount and the sender's password (which no field keeps)
TransactionNew(sender, receiver, amount, sender_password) ==
    [sender |-> sender.first_name, receiver |-> receiver.first_name,
     amount |-> amount,
     hash |-> TransactionDigest(sender.first_name, receiver.first_name, amount)]

\* Transaction::validate: the presented digest against the stored one
ValidateAccepts(transaction, hash) == "Ok"

ValidateInverted(transaction, hash) ==
    IF hash = transaction.hash THEN "Tempered" ELSE "Ok"

Validate(transaction, hash) ==
    IF hash # transaction.hash THEN "Tempered" ELSE "Ok"

\* ----------------------------------------------------------------- Block
\* the fold of calculate_hash: acc' = format!("{:?}{:?}", acc, t.hash)
RECURSIVE FoldHashes(_, _)
FoldHashes(acc, txs) ==
    IF Len(txs) = 0 THEN acc
    ELSE FoldHashes(DebugStr(acc) \o DebugBytes(txs[1].hash), Tail(txs))

\* format!("{}{:?}{}{}", index, prev_hash, transactions_hashes, nonce)
BlockDigest(idx, prev_hash, txs, nonce) ==
    Sha512(FmtNum(idx) \o DebugBytes(prev_hash)
           \o FoldHashes(<<>>, txs) \o FmtNum(nonce))

\* a loop that compares the first byte only
LoopCondFirstByte(hash) == hash[1] # Target[1]

\* the condition of the while loop of calculate_hash
LoopCond(hash) == SubSeq(hash, 1, 2) # Target

\* Block::calculate_hash: hash with the current nonce, then nonce += 1, while
\* the hash does not start with the target (the search is cut at MaxNonce)
RECURSIVE CalculateHash(_)
CalculateHash(block) ==
    IF LoopCond(block.hash) /\ block.nonce <= MaxNonce
    THEN CalculateHash([block EXCEPT
            !.hash = BlockDigest(block.index, block.prev_hash,
                                 block.transactions, block.nonce),
            !.nonce = block.nonce + 1])
    ELSE block

\* Block::new
BlockNewIndexZero(idx, prev_hash, txs) ==
    [CalculateHash([index |-> idx, prev_hash |-> prev_hash,
                    transactions |-> txs, nonce |-> 0, hash |-> ZeroHash])
        EXCEPT !.index = 0]

BlockNew(idx, prev_hash, txs) ==
    CalculateHash([index |-> idx, prev_hash |-> prev_hash,
                   transactions |-> txs, nonce |-> 0, hash |-> ZeroHash])

\* the search of Block::new ended (it was not cut)
Returned(block) == ~LoopCond(block.hash)

\* Default for Block: the genesis block
BlockDefault == BlockNew(0, ZeroHash, <<>>)

\* ------------------------------------------------------------ BlockChain
\* the unsafe block of push_transaction: sender.sub_money_unchecked(amount),
\* then receiver.add_money_unchecked(amount)
Transfer(sender, receiver, amount) ==
    IF SubAssignPanics(sender.balance, amount)
    THEN [panicked |-> TRUE, sender |-> sender, receiver |-> receiver]
    ELSE [panicked |-> FALSE,
          sender |-> [sender EXCEPT !.balance = SubAssign(@, amount)],
          receiver |-> [receiver EXCEPT !.balance = AddAssign(@, amount)]]

\* the condition under which push_transaction makes a block
BlockDue(pending, per_block) == Len(pending) = per_block

\* a link to the first block instead of the last
PrevHashFirst(blocks) == blocks[1].hash

\* the hash push_transaction links the new block to
PrevHash(blocks) == blocks[Len(blocks)].hash

ChainReplaceLast(blocks, block) ==
    Append(SubSeq(blocks, 1, Len(blocks) - 1), block)

\* self.chain.push(new_block)
ChainPush(blocks, block) == Append(blocks, block)

\* the transactions the ledger holds, sealed and pending
RECURSIVE Sealed(_, _)
Sealed(blocks, i) == IF i > Len(blocks) THEN 0
                     ELSE Len(blocks[i].transactions) + Sealed(blocks, i + 1)

TxCount(blocks, pending) == Sealed(blocks, 1) + Len(pending)

\* the transactions of the blocks from position i on, in chain order
RECURSIVE SealedTransactions(_, _)
SealedTransactions(blocks, i) ==
    IF i > Len(blocks) THEN <<>>
    ELSE blocks[i].transactions \o SealedTransactions(blocks, i + 1)

\* BlockChain::new
Init ==
    /\ accounts = <<>>
    /\ index = 0
    /\ chain = <<BlockDefault>>
    /\ Returned(chain[1])
    /\ transactions = <<>>
    /\ transactions_per_block \in BatchSizes
    /\ panicked = FALSE
    /\ last = [op |-> "new"]

\* Account::new; the password is the name, as in main
AccountNew(name, password) ==
    /\ name \notin DOMAIN accounts
    /\ password = name
    /\ accounts' = accounts @@ (name :> AccountInit(name, password))
    /\ panicked' = FALSE
    /\ last' = [op |-> "Account::new", name |-> name]
    /\ UNCHANGED <<index, chain, transactions, transactions_per_block>>

\* Account::add_money
add_money(name, amount) ==
    /\ name \in DOMAIN accounts
    /\ accounts' = [accounts EXCEPT ![name].balance = AddMoneyBalance(@, amount)]
    /\ accounts'[name].balance <= MaxBal
    /\ panicked' = FALSE
    /\ last' = [op |-> "add_money"]
    /\ UNCHANGED <<index, chain, transactions, transactions_per_block>>

\* Account::sub_money
sub_money(name, amount) ==
    /\ name \in DOMAIN accounts
    /\ accounts' = [accounts EXCEPT ![name].balance = SubMoneyBalance(@, amount)]
    /\ panicked' = FALSE
    /\ last' = [op |-> "sub_money"]
    /\ UNCHANGED <<index, chain, transactions, transactions_per_block>>

\* BlockChain::push_transaction(sender, receiver, amount, sender_password);
\* sender and receiver are two exclusive borrows, hence two accounts
push_transaction(s, r, amount, sender_password) ==
    /\ s \in DOMAIN accounts /\ r \in DOMAIN accounts /\ s # r
    /\ LET transaction == TransactionNew(accounts[s], accounts[r], amount, sender_password)
           result == Validate(transaction, transaction.hash)
           pending == IF result = "Ok" THEN Append(transactions, transaction)
                      ELSE transactions
           moved == IF result = "Ok" THEN Transfer(accounts[s], accounts[r], amount)
                    ELSE [panicked |-> FALSE, sender |-> accounts[s],
                          receiver |-> accounts[r]]
           new_block == BlockNew(index + 1, PrevHash(chain), pending)
       IN  /\ last' = [op |-> "push_transaction", sender |-> s, receiver |-> r,
                       amount |-> amount, result |-> result]
           /\ panicked' = moved.panicked
           /\ accounts' = [accounts EXCEPT ![s] = moved.sender, ![r] = moved.receiver]
           /\ IF ~moved.panicked /\ BlockDue(pending, transactions_per_block)
              THEN /\ index' = index + 1
                   /\ chain' = ChainPush(chain, new_block)
                   /\ Returned(chain'[Len(chain')])
                   /\ transactions' = <<>>
              ELSE /\ transactions' = pending
                   /\ UNCHANGED <<index, chain>>
    /\ \A n \in DOMAIN accounts :
           accounts'[n].balance <= MaxBal /\ accounts'[n].balance >= 0 - MaxBal
    /\ TxCount(chain', transactions') <= MaxTx
    /\ UNCHANGED transactions_per_block

Next ==
    \/ \E n \in Names, p \in Passwords : AccountNew(n, p)
    \/ \E n \in Names, a \in Amounts : add_money(n, a)
    \/ \E n \in Names, a \in Amounts : sub_money(n, a)
    \/ \E s \in Names, r \in Names, a \in Amounts, p \in Passwords :
           push_transaction(s, r, a, p)

Spec == Init /\ [][Next]_vars

\* The calls of impl Account on their own, recording the arguments and the
\* balance the call found.
add_money_call(name, amount) ==
    /\ name \in DOMAIN accounts
    /\ accounts' = [accounts EXCEPT ![name].balance = AddMoneyBalance(@, amount)]
    /\ accounts'[name].balance <= MaxBal
    /\ panicked' = FALSE
    /\ last' = [op |-> "add_money", name |-> name, amount |-> amount,
                balance |-> accounts[name].balance]
    /\ UNCHANGED <<index, chain, transactions, transactions_per_block>>

sub_money_call(name, amount) ==
    /\ name \in DOMAIN accounts
    /\ accounts' = [accounts EXCEPT ![name].balance = SubMoneyBalance(@, amount)]
    /\ panicked' = FALSE
    /\ last' = [op |-> "sub_money", name |-> name, amount |-> amount,
                balance |-> accounts[name].balance]
    /\ UNCHANGED <<index, chain, transactions, transactions_per_block>>

\* Account::add_money_unchecked: an unchecked AddAssign
add_money_unchecked(name, amount) ==
    /\ name \in DOMAIN accounts
    /\ accounts' = [accounts EXCEPT ![name].balance = AddAssign(@, amount)]
    /\ accounts'[name].balance <= MaxBal /\ accounts'[name].balance >= 0 - MaxBal
    /\ panicked' = FALSE
    /\ last' = [op |-> "add_money_unchecked", name |-> name, amount |-> amount,
                balance |-> accounts[name].balance]
    /\ UNCHANGED <<index, chain, transactions, transactions_per_block>>

\* Account::sub_money_unchecked: SubAssign, which panics before it assigns
sub_money_unchecked(name, amount) ==
    /\ name \in DOMAIN accounts
    /\ panicked' = SubAssignPanics(accounts[name].balance, amount)
    /\ accounts' = IF panicked' THEN accounts
                   ELSE [accounts EXCEPT ![name].balance = SubAssign(@, amount)]
    /\ accounts'[name].balance <= MaxBal
    /\ last' = [op |-> "sub_money_unchecked", name |-> name, amount |-> amount,
                balance |-> accounts[name].balance]
    /\ UNCHANGED <<index, chain, transactions, transactions_per_block>>

NextAccount ==
    \/ \E n \in Names, p \in Passwords : AccountNew(n, p)
    \/ \E n \in Names, a \in Amounts : add_money_call(n, a)
    \/ \E n \in Names, a \in Amounts : sub_money_call(n, a)
    \/ \E n \in Names, a \in Amounts : add_money_unchecked(n, a)
    \/ \E n \in Names, a \in Amounts : sub_money_unchecked(n, a)

SpecAccount == Init /\ [][NextAccount]_vars

\* Transaction::validate on its own: a transaction built from any two accounts
\* and any amount, checked against any presented digest.
Digests == [1 .. HashLen -> {Target[1], Target[1] + 1}] \cup {ZeroHash}

validate(s, r, amount, hash) ==
    /\ s \in DOMAIN accounts /\ r \in DOMAIN accounts
    /\ LET transaction == TransactionNew(accounts[s], accounts[r], amount, s)
       IN  last' = [op |-> "validate", transaction |-> transaction, hash |-> hash,
                    result |-> Validate(transaction, hash)]
    /\ panicked' = FALSE
    /\ UNCHANGED <<accounts, index, chain, transactions, transactions_per_block>>

NextValidate ==
    \/ \E n \in Names, p \in Passwords : AccountNew(n, p)
    \/ \E s \in Names, r \in Names, a \in Amounts, d \in Digests : validate(s, r, a, d)

SpecValidate == Init /\ [][NextValidate]_vars

\* ------------------------------------------------------------- the claims
\* the call that led to this state was a push_transaction
Pushed == last.op = "push_transaction"

\* push_transaction never takes its Err branch: the digest it presents to
\* validate is the transaction's own
ValidationAlwaysOk == Pushed => last.result = "Ok"

\* C2: every account balance is >= 0 in every reachable state.
C2_NonNegativeBalances == \A n \in DOMAIN accounts : accounts[n].balance >= 0

\* C3: a push_transaction whose amount is zero, negative or greater than the
\* sender's balance is rejected with InvalidAmount; the pending buffer, both
\* balances and the height are as before the call.
C3_InvalidAmountRejected ==
    [][(Pushed' /\ (last'.amount <= 0 \/ last'.amount > accounts[last'.sender].balance))
       => /\ last'.result = "InvalidAmount"
          /\ transactions' = transactions
          /\ accounts' = accounts
          /\ index' = index]_vars

\* C4: a push_transaction that validates with amount a, sender balance S and
\* receiver balance R leaves S - a and R + a, and every other balance as it was.
C4_Conservation ==
    [][(Pushed' /\ last'.result = "Ok")
       => /\ accounts'[last'.sender].balance
                = accounts[last'.sender].balance - last'.amount
          /\ accounts'[last'.receiver].balance
                = accounts[last'.receiver].balance + last'.amount
          /\ \A n \in DOMAIN accounts \ {last'.sender, last'.receiver} :
                accounts'[n] = accounts[n]]_vars

\* C5: with batch size k, a validated push_transaction that brings the pending
\* buffer to fewer than k transactions leaves the height and the chain alone
\* and the buffer one longer; the one that brings it to k raises the height by
\* one, makes the chain one block longer and empties the buffer; a rejected
\* one changes none of the three.
C5_Batching ==
    [][(Pushed' /\ Len(transactions) < transactions_per_block)
       => IF last'.result # "Ok"
          THEN index' = index /\ chain' = chain /\ transactions' = transactions
          ELSE IF Len(transactions) + 1 = transactions_per_block
          THEN /\ index' = index + 1
               /\ Len(chain') = Len(chain) + 1
               /\ transactions' = <<>>
          ELSE /\ index' = index
               /\ chain' = chain
               /\ Len(transactions') = Len(transactions) + 1]_vars

\* C6: between calls the pending buffer holds fewer transactions than the
\* batch size.
C6_PendingBelowBatch == Len(transactions) < transactions_per_block

\* C7: chain[0] is the genesis block (index 0, no transactions, all-zero
\* previous hash) and every later block's prev_hash is its predecessor's hash.
C7_ChainLinkage ==
    /\ Len(chain) >= 1
    /\ chain[1].index = 0
    /\ chain[1].transactions = <<>>
    /\ chain[1].prev_hash = ZeroHash
    /\ \A i \in 2 .. Len(chain) : chain[i].prev_hash = chain[i - 1].hash

\* C7's case: two blocks made after the genesis block
C7_Witness == Len(chain) >= 3

\* C8: recomputing the digest from a block's stored index, prev_hash,
\* transactions and nonce gives the block's stored hash.
C8_RoundTrip ==
    \A i \in 1 .. Len(chain) :
        BlockDigest(chain[i].index, chain[i].prev_hash,
                    chain[i].transactions, chain[i].nonce) = chain[i].hash

\* C9: every block of the chain, the genesis block included, has a hash that
\* starts with the target bytes and is not the initial all-zero value.
C9_ProofOfWork ==
    \A i \in 1 .. Len(chain) :
        /\ SubSeq(chain[i].hash, 1, 2) = Target
        /\ chain[i].hash # ZeroHash

\* C9's case: a block made of pending transactions, next to the genesis block
C9_Witness ==
    \E i \in 1 .. Len(chain) : chain[i].index >= 1 /\ Len(chain[i].transactions) >= 1

\* the digest of the block's content with nonce n starts with the target
Fits(block, n) ==
    SubSeq(BlockDigest(block.index, block.prev_hash, block.transactions, n), 1, 2) = Target

\* C10: a block's stored nonce is the smallest n >= 0 whose digest starts with
\* the target.
C10_MinimalNonce ==
    \A i \in 1 .. Len(chain) :
        /\ Fits(chain[i], chain[i].nonce)
        /\ \A n \in 0 .. chain[i].nonce - 1 : ~Fits(chain[i], n)

\* C11: after a push_transaction call, whether it returns or unwinds, either
\* the sender is debited, the receiver credited and the transaction held by
\* the ledger (pending or in the new block), or none of the three.
C11_AllOrNothing ==
    [][Pushed'
       => LET S == accounts[last'.sender].balance
              R == accounts[last'.receiver].balance
              S2 == accounts'[last'.sender].balance
              R2 == accounts'[last'.receiver].balance
              held == TxCount(chain, transactions)
              held2 == TxCount(chain', transactions')
          IN  \/ S2 = S - last'.amount /\ R2 = R + last'.amount /\ held2 = held + 1
              \/ S2 = S /\ R2 = R /\ held2 = held]_vars

\* C12: no call panics.
C12_NoPanic == ~panicked

\* C13: validate returns Ok exactly when the presented digest is the digest
\* of the transaction's sender, receiver and amount, and the Tempered error
\* for every other digest.
C13_DigestIntegrity ==
    last.op = "validate"
    => LET t == last.transaction
           same == last.hash = TransactionDigest(t.sender, t.receiver, t.amount)
       IN  /\ same => last.result = "Ok"
           /\ ~same => last.result = "Tempered"

C13_Witness ==
    /\ last.op = "validate"
    /\ last.result = "Tempered"
    /\ last.hash # ZeroHash

\* C14: sub_money(amount) leaves balance - amount when 0 < amount <= balance
\* and the balance it found otherwise, without panicking; a balance that was
\* not negative is not negative afterwards.
C14_SubMoney ==
    last.op = "sub_money"
    => LET before == last.balance
           after == accounts[last.name].balance
       IN  /\ ~panicked
           /\ (0 < last.amount /\ last.amount <= before) => after = before - last.amount
           /\ ~(0 < last.amount /\ last.amount <= before) => after = before
           /\ before >= 0 => after >= 0

C14_Witness ==
    /\ last.op = "sub_money"
    /\ last.amount > last.balance
    /\ last.amount > 0
    /\ accounts[last.name].balance = last.balance

\* C15: add_money(amount) leaves balance + amount when amount > 0 and the
\* balance it found otherwise; a new account has balance 0.
C15_AddMoney ==
    /\ last.op = "add_money"
       => accounts[last.name].balance =
              IF last.amount > 0 THEN last.balance + last.amount ELSE last.balance
    /\ last.op = "Account::new" => accounts[last.name].balance = 0

C15_Witness ==
    /\ last.op = "add_money"
    /\ last.amount > 0
    /\ accounts[last.name].balance = last.balance + last.amount

\* C16: a push_transaction call whose password does not hash to the sender's
\* stored password digest is rejected with WrongPassword and changes neither
\* the balances, nor the pending transactions, nor the chain.
C16_WrongPasswordRejected ==
    [][\A s \in Names, r \in Names, a \in Amounts, p \in Passwords :
          (push_transaction(s, r, a, p) /\ Sha512(<<p>>) # accounts[s].hash_password)
          => /\ last'.result = "WrongPassword"
             /\ UNCHANGED <<accounts, transactions, chain>>]_vars

\* C17: the block a push_transaction makes holds exactly the
\* transactions_per_block transactions validated since the block before it, in
\* the order they were submitted, none of them one that is to be rejected (an
\* amount that is not positive); a rejected transaction is kept nowhere; and
\* the validated transactions, in order, are the transactions of the blocks
\* followed by the pending ones, each once.
C17_BlockContents ==
    [][Pushed'
       => LET transaction == TransactionNew(accounts[last'.sender],
                                            accounts[last'.receiver],
                                            last'.amount, last'.sender)
              batch == Append(transactions, transaction)
          IN  IF last'.result = "Ok"
              THEN /\ SealedTransactions(chain', 1) \o transactions'
                        = SealedTransactions(chain, 1) \o batch
                   /\ Len(chain') > Len(chain)
                        => /\ chain'[Len(chain')].transactions = batch
                           /\ Len(batch) = transactions_per_block
                           /\ transactions' = <<>>
                           /\ \A i \in 1 .. Len(batch) : batch[i].amount > 0
              ELSE UNCHANGED <<chain, transactions>>]_vars

\* C18: in every step the chain keeps its length or grows by one block, and
\* every block it held is still there, at its position, unchanged.
C18_AppendOnly ==
    [][/\ Len(chain') \in {Len(chain), Len(chain) + 1}
       /\ SubSeq(chain', 1, Len(chain)) = chain]_vars

C18_Witness ==
    /\ Pushed
    /\ Len(chain) >= 2
    /\ transactions = <<>>
    /\ transactions_per_block = 1

\* C19: the height is the chain length minus 1, and the block at position i
\* (counted from 0) has index i.
C19_HeightIndex ==
    /\ index = Len(chain) - 1
    /\ \A i \in 1 .. Len(chain) : chain[i].index = i - 1

C19_Witness == index = 2 /\ Len(chain) = 3 /\ chain[3].index = 2

====
